---- MODULE Spec2Model ----
(***************************************************************************)
(* Bearer-token authentication of app/auth_utils.py: the extraction of the *)
(* token from the Authorization header, the token gate                     *)
(* requires_auth_token, the scope check requires_scope and the rendering   *)
(* of an AuthError by handle_auth_error.                                   *)
(*                                                                         *)
(* Strings.  A string is a sequence of pieces.  The piece " " is one       *)
(* whitespace character; every other piece is a run of non-whitespace      *)
(* characters written as a TLA+ string.  The pieces are chosen so that no  *)
(* piece is a prefix of another, hence two sequences of pieces are equal   *)
(* exactly when the strings they spell are equal.  A word is a string      *)
(* without whitespace.                                                     *)
(*                                                                         *)
(* Tokens.  The module never looks inside the token string: it hands it    *)
(* to python-jose.  What python-jose reads from the token (its header, its *)
(* signature, its payload) is drawn when the first library call reads it   *)
(* and is kept in jwt_header and jwt_body, so that later calls read the    *)
(* same token.                                                             *)
(***************************************************************************)
EXTENDS Naturals, Sequences, FiniteSets, TLC

(* ------------------------------ bounds --------------------------------- *)

\* Longest Authorization header value, in pieces.
MaxHeaderLen == 5
\* Longest scope claim, in pieces.
MaxScopeLen == 3
\* Largest number of entries of the fetched key set.
MaxKeys == 2
\* Times run over 0..MaxTime.
MaxTime == 2

(* ------------------------------ options -------------------------------- *)

None == <<>>
Some(v) == <<v>>

(* ------------------------------ strings -------------------------------- *)

SP == " "
HeaderPieces == {SP, "Bearer", "xyz"}
ScopePieces == {SP, "read", "write"}

\* All strings of at most n pieces over the alphabet P.
Strings(P, n) == UNION {[1..k -> P] : k \in 0..n}

\* str.lower() on one piece.
LowerPiece(p) == IF p = "Bearer" THEN "bearer" ELSE p

\* str.lower(): every character lower-cased.
Lower(s) == [i \in 1..Len(s) |-> LowerPiece(s[i])]

\* str.split() with no argument: the maximal runs of non-whitespace, in
\* order; leading, trailing and repeated whitespace yield no empty part.
RECURSIVE SplitFrom(_, _, _)
SplitFrom(s, i, word) ==
    IF i > Len(s)
    THEN IF word = <<>> THEN <<>> ELSE <<word>>
    ELSE IF s[i] = SP
         THEN IF word = <<>>
              THEN SplitFrom(s, i + 1, <<>>)
              ELSE <<word>> \o SplitFrom(s, i + 1, <<>>)
         ELSE SplitFrom(s, i + 1, Append(word, s[i]))

Split(s) == SplitFrom(s, 1, <<>>)

(* ----------------------------- exceptions ------------------------------ *)

\* AuthError(error, status_code): error is the dict {code, description}.
AuthError(code, description, status_code) ==
    [type |-> "AuthError",
     error |-> [code |-> code, description |-> description],
     status_code |-> status_code]

\* Any exception that is not an AuthError; only its class is kept.
OtherError(class) == [type |-> class]

IsAuthError(e) == e.type = "AuthError"

\* The outcome of a call: it returns a value or raises an exception.
Return(v) == [raises |-> None, value |-> Some(v)]
Raise(e) == [raises |-> Some(e), value |-> None]

(* ------------------------- get_token_auth_header ----------------------- *)

\* request.headers.get("Authorization", None): an absent header is None.
NoHeader == [present |-> FALSE, value |-> <<>>]
HeaderOf(s) == [present |-> TRUE, value |-> s]
Headers == {NoHeader} \cup {HeaderOf(s) : s \in Strings(HeaderPieces, MaxHeaderLen)}

\* `not auth`: None and the empty string are both falsy.
Falsy(h) == ~h.present \/ h.value = <<>>

\* As get_token_auth_header, with the part count checked before the scheme.
get_token_auth_header_count_first(h) ==
    IF Falsy(h)
    THEN Raise(AuthError("authorization_header_missing",
                         "Authorization header is expected", 401))
    ELSE LET parts == Split(h.value) IN
         IF Len(parts) = 0
         THEN Raise(OtherError("IndexError"))
         ELSE IF Len(parts) = 1
         THEN Raise(AuthError("invalid_header", "Token not found", 401))
         ELSE IF Len(parts) > 2
         THEN Raise(AuthError("invalid_header",
                              "Authorization header must be" \o " Bearer token", 401))
         ELSE IF Lower(parts[1]) # <<"bearer">>
         THEN Raise(AuthError("invalid_header",
                              "Authorization header must start with" \o " Bearer", 401))
         ELSE Return(parts[2])

get_token_auth_header(h) ==
    IF Falsy(h)
    THEN Raise(AuthError("authorization_header_missing",
                         "Authorization header is expected", 401))
    ELSE LET parts == Split(h.value) IN
         IF Len(parts) = 0
         THEN Raise(OtherError("IndexError"))
         ELSE IF Lower(parts[1]) # <<"bearer">>
         THEN Raise(AuthError("invalid_header",
                              "Authorization header must start with" \o " Bearer", 401))
         ELSE IF Len(parts) = 1
         THEN Raise(AuthError("invalid_header", "Token not found", 401))
         ELSE IF Len(parts) > 2
         THEN Raise(AuthError("invalid_header",
                              "Authorization header must be" \o " Bearer token", 401))
         ELSE Return(parts[2])

(* ------------------------------ settings ------------------------------- *)

\* As ALGORITHMS, with the symmetric algorithm allowed as well.
ALGORITHMS_with_HS256 == {"RS256", "HS256"}

ALGORITHMS == {"RS256"}

\* app.serve supplies the two settings the validation reads.
API_AUDIENCE == "https://api"
AUTH0_DOMAIN == "tenant.auth0.com"

(* ------------------------------- tokens -------------------------------- *)

Kids == {"k1", "k2"}
Moduli == {"n1", "n2"}
Algs == {"RS256", "HS256", "none"}

\* An entry of the key set.  Of kty, kid, use, n and e only kid (which the
\* gate compares) and n (which stands for the key material) are kept.
Keys == {[kid |-> "k1", n |-> "n1"], [kid |-> "k2", n |-> "n2"],
         [kid |-> "k1", n |-> "n2"]}

\* A body of the JWKS endpoint once json.loads has parsed it: with a keys
\* list of at most MaxKeys entries, or without one.
KeySets ==
    {[has_keys |-> TRUE, keys |-> ks] : ks \in UNION {[1..k -> Keys] : k \in 0..MaxKeys}}
    \cup {[has_keys |-> FALSE, keys |-> <<>>]}

\* What python-jose reads from the first segment of the token.
JwtHeaders ==
    {[decodable |-> FALSE, kid |-> None, alg |-> "RS256"]}
    \cup {[decodable |-> TRUE, kid |-> k, alg |-> a] :
            k \in {None} \cup {Some(x) : x \in Kids}, a \in Algs}

\* The scope claim: absent, a string, or a JSON list.
NoScope == [kind |-> "absent", value |-> <<>>]
StrScope(s) == [kind |-> "str", value |-> s]
ListScope(l) == [kind |-> "list", value |-> l]
ScopeClaims ==
    {NoScope} \cup {StrScope(s) : s \in Strings(ScopePieces, MaxScopeLen)}
    \cup {ListScope(<<>>), ListScope(<<"read">>)}

\* The instant at which the token is validated.
Now == MaxTime - 1

Issuers == {AUTH0_DOMAIN \o "/", AUTH0_DOMAIN}
Audiences == {API_AUDIENCE, "https://other"}

Claims(exp, aud, iss, scope) == [exp |-> exp, aud |-> aud, iss |-> iss, scope |-> scope]

\* What python-jose reads from the second and third segments: the key
\* material the signature was made with, and the payload.
Body(sig, decodable, claims) == [sig |-> sig, decodable |-> decodable, claims |-> claims]

DefaultClaims == Claims(MaxTime, API_AUDIENCE, AUTH0_DOMAIN \o "/", NoScope)

\* The token gate reads the signature, exp, aud and iss; it never reads
\* the scope claim, which is held to one value.
GateBodies ==
    {Body(sig, FALSE, DefaultClaims) : sig \in Moduli}
    \cup {Body(sig, TRUE, Claims(exp, aud, iss, StrScope(<<"read">>))) :
            sig \in Moduli, exp \in 0..MaxTime, aud \in Audiences,
            iss \in Issuers}

\* requires_scope reads whether the segments decode and the scope claim;
\* the parts it never reads are held to one value.
ScopeHeaders ==
    {[decodable |-> d, kid |-> Some("k1"), alg |-> "RS256"] : d \in BOOLEAN}
ScopeBodies ==
    {Body("n1", FALSE, DefaultClaims)}
    \cup {Body("n1", TRUE, Claims(MaxTime, API_AUDIENCE, AUTH0_DOMAIN \o "/", scope)) :
            scope \in ScopeClaims}

RequiredScopes == {<<>>, <<"read">>, <<"write">>, <<"read", "write">>}

(* ----------------------------- python-jose ----------------------------- *)

\* jwt.get_unverified_header(token)
jwt_get_unverified_header(h) ==
    IF h.decodable THEN Return(h) ELSE Raise(OtherError("JWTError"))

\* jwt.get_unverified_claims(token): both segments are decoded.
jwt_get_unverified_claims(h, b) ==
    IF h.decodable /\ b.decodable
    THEN Return(b.claims)
    ELSE Raise(OtherError("JWTError"))

\* As jwt_decode, with the audience validated before the expiry.
jwt_decode_aud_before_exp(h, b, key, algorithms, audience, issuer) ==
    IF ~h.decodable \/ ~b.decodable THEN Raise(OtherError("JWTError"))
    ELSE IF h.alg \notin algorithms THEN Raise(OtherError("JWTError"))
    ELSE IF b.sig # key.n THEN Raise(OtherError("JWTError"))
    ELSE IF b.claims.aud # audience THEN Raise(OtherError("JWTClaimsError"))
    ELSE IF b.claims.exp < Now THEN Raise(OtherError("ExpiredSignatureError"))
    ELSE IF b.claims.iss # issuer THEN Raise(OtherError("JWTClaimsError"))
    ELSE Return(b.claims)

\* As jwt_decode, with no validation of the audience.
jwt_decode_no_audience(h, b, key, algorithms, audience, issuer) ==
    IF ~h.decodable \/ ~b.decodable THEN Raise(OtherError("JWTError"))
    ELSE IF h.alg \notin algorithms THEN Raise(OtherError("JWTError"))
    ELSE IF b.sig # key.n THEN Raise(OtherError("JWTError"))
    ELSE IF b.claims.exp < Now THEN Raise(OtherError("ExpiredSignatureError"))
    ELSE IF b.claims.iss # issuer THEN Raise(OtherError("JWTClaimsError"))
    ELSE Return(b.claims)

\* jwt.decode(token, key, algorithms, audience, issuer): the segments are
\* decoded, the header's alg is checked against the allow-list, the
\* signature is verified with the key, then exp, aud and iss are validated
\* in that order.
jwt_decode(h, b, key, algorithms, audience, issuer) ==
    IF ~h.decodable \/ ~b.decodable THEN Raise(OtherError("JWTError"))
    ELSE IF h.alg \notin algorithms THEN Raise(OtherError("JWTError"))
    ELSE IF b.sig # key.n THEN Raise(OtherError("JWTError"))
    ELSE IF b.claims.exp < Now THEN Raise(OtherError("ExpiredSignatureError"))
    ELSE IF b.claims.aud # audience THEN Raise(OtherError("JWTClaimsError"))
    ELSE IF b.claims.iss # issuer THEN Raise(OtherError("JWTClaimsError"))
    ELSE Return(b.claims)

(* ------------------------- requires_auth_token ------------------------- *)

\* The loop over jwks["keys"]: every entry whose kid equals the token
\* header's kid overwrites rsa_key, so the last match is kept.  rsa_key is
\* the set of at most one key; the empty set is the empty dict.
\* As find_key, looking at the first entry of the key set only.
find_key_first_entry(keys, kid, rsa_key) ==
    IF keys # <<>> /\ Head(keys).kid = kid THEN {Head(keys)} ELSE rsa_key

RECURSIVE find_key(_, _, _)
find_key(keys, kid, rsa_key) ==
    IF keys = <<>> THEN rsa_key
    ELSE find_key(Tail(keys), kid,
                  IF Head(keys).kid = kid THEN {Head(keys)} ELSE rsa_key)

\* The except clauses around jwt.decode, in their order.
decode_error(e) ==
    IF e.type = "ExpiredSignatureError"
    THEN AuthError("token_expired", "token is expired", 401)
    ELSE IF e.type = "JWTClaimsError"
    THEN AuthError("invalid_claims",
                   "incorrect claims," \o "please check the audience and issuer", 401)
    ELSE AuthError("invalid_header",
                   "Unable to parse authentication" \o " token.", 401)

no_key_error ==
    AuthError("invalid_header", "Unable to find appropriate key", 401)

(* --------------------------- requires_scope ---------------------------- *)

\* Whether the string t occurs in the string s.
Occurs(t, s) ==
    \E i \in 1..(Len(s) + 1) :
        i + Len(t) - 1 <= Len(s) /\ SubSeq(s, i, i + Len(t) - 1) = t

\* As scope_check, matching the required scope anywhere in the claim.
scope_check_substring(claims, required) ==
    LET scope == claims.scope IN
    IF scope.kind = "absent" \/ scope.value = <<>>
    THEN Return(FALSE)
    ELSE IF scope.kind # "str"
    THEN Raise(OtherError("AttributeError"))
    ELSE Return(Occurs(required, scope.value))

\* The body of requires_scope once the claims are read.
scope_check(claims, required) ==
    LET scope == claims.scope IN
    IF scope.kind = "absent" \/ scope.value = <<>>
    THEN Return(FALSE)
    ELSE IF scope.kind # "str"
    THEN Raise(OtherError("AttributeError"))
    ELSE Return(\E i \in 1..Len(Split(scope.value)) : Split(scope.value)[i] = required)

(* ------------------------------- state --------------------------------- *)

VARIABLES
    pc,             \* position of the request in the code
    entry,          \* "gate": requires_auth_token; "scope": requires_scope
    header,         \* the request's Authorization header
    required_scope, \* the argument of requires_scope
    token,          \* what get_token_auth_header returned
    jwks,           \* the parsed body of the JWKS endpoint
    jwt_header,     \* what python-jose reads from the token's header
    jwt_body,       \* what python-jose reads from the rest of the token
    rsa_key,        \* the key selected by the loop
    decode_called,  \* jwt.decode has been called
    current_user,   \* _request_ctx_stack.top.current_user
    handler_called, \* f(*args, **kwargs) has been called
    result,         \* what requires_scope returned
    raised,         \* the exceptions that left the function, in order
    response        \* what handle_auth_error rendered

vars == <<pc, entry, header, required_scope, token, jwks, jwt_header, jwt_body,
          rsa_key, decode_called, current_user, handler_called, result, raised,
          response>>

request == <<entry, header, required_scope>>

Init ==
    /\ entry \in {"gate", "scope"}
    /\ header \in Headers
    /\ required_scope \in (IF entry = "scope" THEN RequiredScopes ELSE {<<>>})
    /\ pc = (IF entry = "gate" THEN "gate_get_token" ELSE "scope_get_token")
    /\ token = None
    /\ jwks = None
    /\ jwt_header = None
    /\ jwt_body = None
    /\ rsa_key = {}
    /\ decode_called = FALSE
    /\ current_user = None
    /\ handler_called = FALSE
    /\ result = None
    /\ raised = <<>>
    /\ response = None

\* An exception leaves the function.
Throw(e) == pc' = "raised" /\ raised' = Append(raised, e)

(* --------------------- requires_auth_token.decorated ------------------- *)

\* token = get_token_auth_header()
GateGetToken ==
    /\ pc = "gate_get_token"
    /\ LET r == get_token_auth_header(header) IN
       IF r.raises # None
       THEN Throw(r.raises[1]) /\ UNCHANGED token
       ELSE pc' = "gate_fetch" /\ token' = r.value /\ UNCHANGED raised
    /\ UNCHANGED <<request, jwks, jwt_header, jwt_body, rsa_key, decode_called,
                   current_user, handler_called, result, response>>

\* jsonurl = urlopen(...); jwks = json.loads(jsonurl.read())
GateFetchJwks ==
    /\ pc = "gate_fetch"
    /\ \/ \E e \in {"URLError", "ValueError"} :
            Throw(OtherError(e)) /\ UNCHANGED jwks
       \/ \E ks \in KeySets :
            pc' = "gate_header" /\ jwks' = Some(ks) /\ UNCHANGED raised
    /\ UNCHANGED <<request, token, jwt_header, jwt_body, rsa_key, decode_called,
                   current_user, handler_called, result, response>>

\* unverified_header = jwt.get_unverified_header(token)
GateUnverifiedHeader ==
    /\ pc = "gate_header"
    /\ \E h \in JwtHeaders :
         /\ jwt_header' = Some(h)
         /\ LET r == jwt_get_unverified_header(h) IN
            IF r.raises # None
            THEN Throw(r.raises[1])
            ELSE pc' = "gate_find_key" /\ UNCHANGED raised
    /\ UNCHANGED <<request, token, jwks, jwt_body, rsa_key, decode_called,
                   current_user, handler_called, result, response>>

\* rsa_key = {}; for key in jwks["keys"]: if key["kid"] == unverified_header["kid"]
GateFindKey ==
    /\ pc = "gate_find_key"
    /\ LET ks == jwks[1]
           h == jwt_header[1] IN
       IF ~ks.has_keys
       THEN Throw(OtherError("KeyError")) /\ UNCHANGED rsa_key
       ELSE IF ks.keys # <<>> /\ h.kid = None
       THEN Throw(OtherError("KeyError")) /\ UNCHANGED rsa_key
       ELSE /\ rsa_key' = (IF h.kid = None THEN {}
                           ELSE find_key(ks.keys, h.kid[1], {}))
            /\ pc' = "gate_decode"
            /\ UNCHANGED raised
    /\ UNCHANGED <<request, token, jwks, jwt_header, jwt_body, decode_called,
                   current_user, handler_called, result, response>>

\* if rsa_key: try: payload = jwt.decode(...) except ...: raise AuthError(...)
GateDecode ==
    /\ pc = "gate_decode"
    /\ rsa_key # {}
    /\ \E b \in GateBodies, key \in rsa_key :
         /\ jwt_body' = Some(b)
         /\ decode_called' = TRUE
         /\ LET r == jwt_decode(jwt_header[1], b, key, ALGORITHMS, API_AUDIENCE,
                                AUTH0_DOMAIN \o "/") IN
            IF r.raises # None
            THEN Throw(decode_error(r.raises[1]))
            ELSE pc' = "gate_set_user" /\ UNCHANGED raised
    /\ UNCHANGED <<request, token, jwks, jwt_header, rsa_key, current_user,
                   handler_called, result, response>>

\* _request_ctx_stack.top.current_user = payload
GateSetUser ==
    /\ pc = "gate_set_user"
    /\ current_user' = Some(jwt_body[1].claims)
    /\ pc' = "gate_call"
    /\ UNCHANGED <<request, token, jwks, jwt_header, jwt_body, rsa_key,
                   decode_called, handler_called, result, raised, response>>

\* return f(*args, **kwargs)
GateCallHandler ==
    /\ pc = "gate_call"
    /\ handler_called' = TRUE
    /\ pc' = "done"
    /\ UNCHANGED <<request, token, jwks, jwt_header, jwt_body, rsa_key,
                   decode_called, current_user, result, raised, response>>

\* raise AuthError(... "Unable to find appropriate key" ...)
GateNoKey ==
    /\ pc = "gate_decode"
    /\ rsa_key = {}
    /\ Throw(no_key_error)
    /\ UNCHANGED <<request, token, jwks, jwt_header, jwt_body, rsa_key,
                   decode_called, current_user, handler_called, result, response>>

(* ---------------------------- requires_scope --------------------------- *)

\* token = get_token_auth_header()
ScopeGetToken ==
    /\ pc = "scope_get_token"
    /\ LET r == get_token_auth_header(header) IN
       IF r.raises # None
       THEN Throw(r.raises[1]) /\ UNCHANGED token
       ELSE pc' = "scope_claims" /\ token' = r.value /\ UNCHANGED raised
    /\ UNCHANGED <<request, jwks, jwt_header, jwt_body, rsa_key, decode_called,
                   current_user, handler_called, result, response>>

\* unverified_claims = jwt.get_unverified_claims(token), then the scan of
\* the scope claim up to the return.
ScopeCheck ==
    /\ pc = "scope_claims"
    /\ \E h \in ScopeHeaders, b \in ScopeBodies :
         /\ jwt_header' = Some(h)
         /\ jwt_body' = Some(b)
         /\ LET c == jwt_get_unverified_claims(h, b) IN
            IF c.raises # None
            THEN Throw(c.raises[1]) /\ UNCHANGED result
            ELSE LET r == scope_check(c.value[1], required_scope) IN
                 IF r.raises # None
                 THEN Throw(r.raises[1]) /\ UNCHANGED result
                 ELSE pc' = "done" /\ result' = r.value /\ UNCHANGED raised
    /\ UNCHANGED <<request, token, jwks, rsa_key, decode_called, current_user,
                   handler_called, response>>

(* -------------------------- handle_auth_error -------------------------- *)

\* @app.errorhandler(AuthError): response = jsonify(ex.error);
\* response.status_code = ex.status_code
handle_auth_error ==
    /\ pc = "raised"
    /\ IsAuthError(raised[Len(raised)])
    /\ LET ex == raised[Len(raised)] IN
       response' = Some([body |-> ex.error, status_code |-> ex.status_code])
    /\ pc' = "responded"
    /\ UNCHANGED <<request, token, jwks, jwt_header, jwt_body, rsa_key,
                   decode_called, current_user, handler_called, result, raised>>

Next ==
    \/ GateGetToken
    \/ GateFetchJwks
    \/ GateUnverifiedHeader
    \/ GateFindKey
    \/ GateDecode
    \/ GateSetUser
    \/ GateCallHandler
    \/ GateNoKey
    \/ ScopeGetToken
    \/ ScopeCheck
    \/ handle_auth_error

Spec == Init /\ [][Next]_vars

(* ------------------------------ properties ----------------------------- *)

Parts == Split(header.value)

\* The header has exactly two parts, the first of them "bearer" in any case.
WellFormedHeader ==
    header.present /\ Len(Parts) = 2 /\ Lower(Parts[1]) = <<"bearer">>

GetTokenDone == pc \notin {"gate_get_token", "scope_get_token"}

Rejected == pc \in {"raised", "responded"}

\* The request was rejected with exactly this exception.
RejectedWith(e) == Rejected /\ raised = <<e>>

\* The request was rejected with one AuthError of this code and status.
RejectedAs(code, status) ==
    /\ Rejected
    /\ Len(raised) = 1
    /\ IsAuthError(raised[1])
    /\ raised[1].error.code = code
    /\ raised[1].status_code = status

\* The key-set fetch was attempted and failed: urlopen or json.loads
\* raised, or the parsed body has no keys list.
FetchFailed ==
    /\ entry = "gate"
    /\ token # None
    /\ \/ jwks = None /\ pc # "gate_fetch"
       \/ jwks # None /\ ~jwks[1].has_keys /\ pc \notin {"gate_header", "gate_find_key"}

\* Some entry of the fetched key set has the kid of the token's header.
KidInKeySet ==
    /\ jwks # None
    /\ jwt_header # None
    /\ jwt_header[1].kid # None
    /\ \E i \in 1..Len(jwks[1].keys) : jwks[1].keys[i].kid = jwt_header[1].kid[1]

\* The key matching is over for a token whose header carries a kid.
KeyMatchingDone ==
    /\ entry = "gate"
    /\ jwks # None /\ jwks[1].has_keys
    /\ jwt_header # None /\ jwt_header[1].decodable /\ jwt_header[1].kid # None
    /\ pc # "gate_find_key"

\* jwt.decode was called and the token's segments decode, its algorithm is
\* RS256 and its signature was made with the selected key.
SignatureVerifies ==
    /\ decode_called
    /\ jwt_header[1].decodable /\ jwt_body[1].decodable
    /\ jwt_header[1].alg = "RS256"
    /\ \E key \in rsa_key : jwt_body[1].sig = key.n

Expired == jwt_body[1].claims.exp < Now

ClaimsMatch ==
    /\ jwt_body[1].claims.aud = API_AUDIENCE
    /\ jwt_body[1].claims.iss = AUTH0_DOMAIN \o "/"

\* C1: the wrapped handler is invoked only if the bearer header was
\* extracted, an entry of the fetched key set has the kid of the token's
\* header, and the signature, the expiry, the audience and the issuer all
\* validated; the validated claims are the current user before the handler
\* runs; in every other case no current user is set.
C1_HandlerOnlyAfterValidation ==
    /\ (handler_called \/ pc = "gate_call" \/ current_user # None) =>
          /\ entry = "gate"
          /\ WellFormedHeader /\ token = Some(Parts[2])
          /\ KidInKeySet
          /\ SignatureVerifies /\ ~Expired /\ ClaimsMatch
          /\ current_user = Some(jwt_body[1].claims)
          /\ raised = <<>>
    /\ (entry = "gate" /\ pc = "done") => handler_called

C1_Witness ==
    /\ entry = "gate" /\ pc = "done" /\ handler_called
    /\ current_user = Some(jwt_body[1].claims)

\* C2: whenever the key-set fetch succeeds, a request the token gate
\* rejects ends in exactly one AuthError of status 401 whose code is
\* authorization_header_missing, invalid_header, token_expired or
\* invalid_claims, whatever the header and the token.
C2_RejectionIsOneAuthError ==
    (entry = "gate" /\ Rejected /\ ~FetchFailed) =>
        /\ Len(raised) = 1
        /\ IsAuthError(raised[1])
        /\ raised[1].status_code = 401
        /\ raised[1].error.code \in {"authorization_header_missing", "invalid_header",
                                     "token_expired", "invalid_claims"}

\* C3: get_token_auth_header on a header of at least one part: a first part
\* that is not "bearer" in any case raises invalid_header "Authorization
\* header must start with Bearer" whatever the number of parts; else one
\* part raises "Token not found"; else more than two parts raise
\* "Authorization header must be Bearer token"; else the second part is
\* returned; an absent header raises authorization_header_missing; all 401.
C3_HeaderChecksInOrder ==
    /\ (GetTokenDone /\ ~header.present) =>
          /\ token = None
          /\ RejectedAs("authorization_header_missing", 401)
    /\ (GetTokenDone /\ header.present /\ Len(Parts) >= 1) =>
          IF Lower(Parts[1]) # <<"bearer">>
          THEN /\ token = None
               /\ RejectedWith(AuthError("invalid_header",
                      "Authorization header must start with Bearer", 401))
          ELSE IF Len(Parts) = 1
          THEN /\ token = None
               /\ RejectedWith(AuthError("invalid_header", "Token not found", 401))
          ELSE IF Len(Parts) > 2
          THEN /\ token = None
               /\ RejectedWith(AuthError("invalid_header",
                      "Authorization header must be Bearer token", 401))
          ELSE token = Some(Parts[2])

\* A header of three parts whose first is not "bearer" was rejected.
C3_Witness ==
    /\ GetTokenDone /\ header.present
    /\ Len(Parts) > 2 /\ Lower(Parts[1]) # <<"bearer">>
    /\ RejectedAs("invalid_header", 401)

\* C4: for a token whose key was matched: a verified signature with exp
\* strictly in the past fails with token_expired whatever aud and iss are;
\* a verified signature, no expiry and a wrong aud or iss fail with
\* invalid_claims; every other failure of jwt.decode fails with
\* invalid_header; all with status 401.
C4_DecodeErrorKinds ==
    (entry = "gate" /\ decode_called) =>
        /\ (SignatureVerifies /\ Expired) => RejectedAs("token_expired", 401)
        /\ (SignatureVerifies /\ ~Expired /\ ~ClaimsMatch) =>
              RejectedAs("invalid_claims", 401)
        /\ ~SignatureVerifies => RejectedAs("invalid_header", 401)

\* An expired token with a wrong audience was rejected as expired.
C4_Witness ==
    /\ entry = "gate" /\ decode_called /\ SignatureVerifies /\ Expired
    /\ jwt_body[1].claims.aud # API_AUDIENCE
    /\ RejectedAs("token_expired", 401)

\* C5: for a token whose header carries a kid, a key is selected if and
\* only if some entry of the fetched key set has that kid; when none has,
\* the request fails with AuthError invalid_header, 401, "Unable to find
\* appropriate key", and jwt.decode is never called on the token.
C5_KeyMatching ==
    KeyMatchingDone =>
        /\ (rsa_key # {}) <=> KidInKeySet
        /\ \A key \in rsa_key : key.kid = jwt_header[1].kid[1]
        /\ (~KidInKeySet /\ pc # "gate_decode") =>
              /\ RejectedWith(AuthError("invalid_header",
                     "Unable to find appropriate key", 401))
              /\ ~decode_called /\ jwt_body = None
              /\ ~handler_called /\ current_user = None

\* A non-empty key set without the token's kid led to the rejection.
C5_Witness ==
    /\ KeyMatchingDone /\ ~KidInKeySet /\ jwks[1].keys # <<>>
    /\ RejectedAs("invalid_header", 401)

\* A later entry of the key set matched the token's kid.
C5_WitnessMatch ==
    /\ KeyMatchingDone /\ KidInKeySet /\ rsa_key # {}
    /\ jwks[1].keys[1].kid # jwt_header[1].kid[1]

\* C6: when the key-set fetch fails, the request is rejected with an
\* AuthError invalid_header of status 401 and the handler is not invoked.
C6_FetchFailureIsInvalidHeader ==
    FetchFailed => (RejectedAs("invalid_header", 401) /\ ~handler_called)

\* C7: a token whose header names an algorithm other than RS256 is
\* rejected and the handler is never invoked, even when its kid matches a
\* key of the key set, its signature matches that key and its claims are valid.
C7_OnlyRS256 ==
    (entry = "gate" /\ jwt_header # None /\ jwt_header[1].alg # "RS256") =>
        /\ ~handler_called
        /\ current_user = None
        /\ pc \notin {"gate_set_user", "gate_call", "done"}
        /\ decode_called => RejectedAs("invalid_header", 401)

\* An HS256 token whose kid, signature and claims are otherwise good was rejected.
C7_Witness ==
    /\ entry = "gate" /\ decode_called
    /\ jwt_header[1].alg = "HS256"
    /\ KidInKeySet
    /\ \E key \in rsa_key : jwt_body[1].sig = key.n
    /\ jwt_body[1].decodable /\ ~Expired /\ ClaimsMatch
    /\ Rejected

\* The word w is one of the whitespace-separated items of the string s.
IsItem(w, s) ==
    /\ w # <<>>
    /\ \A k \in 1..Len(w) : w[k] # SP
    /\ \E i \in 1..Len(s) :
          /\ i + Len(w) - 1 <= Len(s)
          /\ SubSeq(s, i, i + Len(w) - 1) = w
          /\ (i = 1 \/ s[i - 1] = SP)
          /\ (i + Len(w) - 1 = Len(s) \/ s[i + Len(w)] = SP)

\* requires_scope has read a token whose segments decode and whose scope
\* claim is absent or a string.
ScopeRead ==
    /\ entry = "scope"
    /\ jwt_body # None
    /\ jwt_header[1].decodable /\ jwt_body[1].decodable
    /\ jwt_body[1].claims.scope.kind \in {"absent", "str"}

\* C8: for a request whose bearer header extracts and whose payload
\* decodes, requires_scope returns TRUE if and only if the scope claim is
\* present and required_scope is one of its whitespace-separated items, and
\* FALSE otherwise.
C8_ScopeMembership ==
    ScopeRead =>
        /\ pc = "done" /\ raised = <<>>
        /\ result = Some(/\ jwt_body[1].claims.scope.kind = "str"
                         /\ IsItem(required_scope, jwt_body[1].claims.scope.value))

\* The required scope is part of an item of the claim and FALSE was returned.
C8_Witness ==
    /\ ScopeRead /\ pc = "done"
    /\ required_scope = <<"read">>
    /\ jwt_body[1].claims.scope = StrScope(<<"read", "write">>)
    /\ result = Some(FALSE)

\* TRUE was returned for the second item of the claim.
C8_WitnessTrue ==
    /\ ScopeRead /\ pc = "done"
    /\ required_scope = <<"read">>
    /\ jwt_body[1].claims.scope = StrScope(<<"write", SP, "read">>)
    /\ result = Some(TRUE)

\* C9: requires_scope never raises: for every request it returns a boolean.
C9_ScopeNeverRaises ==
    entry = "scope" => (raised = <<>> /\ pc # "raised")

\* C10: an AuthError of the verification stage carries the description of
\* its trigger: expired -> "token is expired"; wrong audience or issuer ->
\* "incorrect claims, please check the audience and issuer"; no matching
\* key -> "Unable to find appropriate key"; any other failure -> "Unable to
\* parse authentication token."; and handle_auth_error renders the error as
\* the body {code, description} with the AuthError's status.
C10_Descriptions ==
    (entry = "gate" /\ Rejected /\ IsAuthError(raised[1]) /\ jwt_header # None) =>
        /\ raised[1].error.description =
              (IF ~decode_called THEN "Unable to find appropriate key"
               ELSE IF ~SignatureVerifies THEN "Unable to parse authentication token."
               ELSE IF Expired THEN "token is expired"
               ELSE "incorrect claims, please check the audience and issuer")
        /\ pc = "responded" =>
              response = Some([body |-> [code |-> raised[1].error.code,
                                         description |-> raised[1].error.description],
                               status_code |-> raised[1].status_code])

====
